---- MODULE Spec2Model ----
(***************************************************************************)
(* A model of the Database class of src/database/database.py: a wrapper    *)
(* around one sqlite3 connection and cursor that builds SQL text from      *)
(* dictionaries and executes it.                                           *)
(*                                                                         *)
(* The wrapper's methods are translated one action per method.  The        *)
(* sqlite3 module it calls is modelled by the Eng* and cursor_execute      *)
(* operators: statement preparation (unknown table or column, an           *)
(* identifier that needs quoting, a literal that does not parse), statement*)
(* execution (NOT NULL and PRIMARY KEY constraints) and Python's implicit  *)
(* transaction handling (a BEGIN before every INSERT/UPDATE/DELETE, none   *)
(* before ALTER TABLE, SELECT or PRAGMA).                                  *)
(*                                                                         *)
(* The database file holds tables of the shape                             *)
(*     T(id INTEGER PRIMARY KEY, name NOT NULL, note)                      *)
(* to which ensure_column may add the column "extra".                      *)
(***************************************************************************)
EXTENDS Integers, Sequences, FiniteSets, TLC

(* ------------------------------ bounds --------------------------------- *)

\* primary keys used by the callers are 1..MaxId
MaxId == 2
\* the database file holds between 1 and MaxTables tables
MaxTables == 2
\* insert_many is called with at most MaxBatch rows
MaxBatch == 3

Ids == 1..MaxId

(* --------------------------- text and values --------------------------- *)

\* Text is a sequence of characters; a character is a one-element string,
\* except NUL, which stands for the character chr(0).
QUOTE == "'"
NUL == "NUL"
DigitChars == <<"0", "1", "2", "3", "4", "5", "6", "7", "8", "9">>
Digits == {DigitChars[i] : i \in 1..10}

\* Python values of the Row data model: str, int, float, None.
PyStr(s) == [ty |-> "str", s |-> s, n |-> 0]
PyInt(n) == [ty |-> "int", s |-> <<>>, n |-> n]
\* a float is kept as the text repr() gives for it
PyFloat(s) == [ty |-> "float", s |-> s, n |-> 0]
PyNone == [ty |-> "none", s |-> <<>>, n |-> 0]

\* Values stored in the database.
SqlText(s) == [ty |-> "text", s |-> s, n |-> 0]
SqlInt(n) == [ty |-> "integer", s |-> <<>>, n |-> n]
SqlReal(s) == [ty |-> "real", s |-> s, n |-> 0]
SqlNull == [ty |-> "null", s |-> <<>>, n |-> 0]

RECURSIVE IntToText(_)
\* str(n) for an int n
IntToText(n) ==
    IF n < 0 THEN <<"-">> \o IntToText(0 - n)
    ELSE IF n < 10 THEN <<DigitChars[n + 1]>>
    ELSE IntToText(n \div 10) \o <<DigitChars[(n % 10) + 1]>>

\* str(value) for a value that is not a str
PyStrOf(v) ==
    CASE v.ty = "int" -> IntToText(v.n)
      [] v.ty = "float" -> v.s
      [] v.ty = "none" -> <<"N", "o", "n", "e">>
      [] OTHER -> v.s

RECURSIVE Replace(_)
\* text.replace("'", "''")
Replace(s) ==
    IF s = <<>> THEN <<>>
    ELSE IF Head(s) = QUOTE THEN <<QUOTE, QUOTE>> \o Replace(Tail(s))
    ELSE <<Head(s)>> \o Replace(Tail(s))

\* Database.stringify: the SQL literal for a Python value
stringify(text, preserve_int) ==
    IF text.ty # "str"
    THEN IF preserve_int THEN PyStrOf(text) ELSE PyStrOf(text)
    ELSE <<QUOTE>> \o Replace(text.s) \o <<QUOTE>>

\* the literal insert_many builds: quoted when a str, never escaped
BatchLiteral(v) ==
    IF v.ty = "str" THEN <<QUOTE>> \o v.s \o <<QUOTE>> ELSE PyStrOf(v)

(* ----------------------- the engine: SQL literals ---------------------- *)

ParseFail == [ok |-> FALSE, val |-> SqlNull]
ParseOk(v) == [ok |-> TRUE, val |-> v]

RECURSIVE ScanString(_, _)
\* the body of a string literal after its opening quote: '' is one quote,
\* a single ' ends the literal and must end the expression
ScanString(rest, acc) ==
    IF rest = <<>> THEN ParseFail
    ELSE IF Head(rest) = QUOTE
         THEN IF Len(rest) >= 2 /\ rest[2] = QUOTE
              THEN ScanString(Tail(Tail(rest)), Append(acc, QUOTE))
              ELSE IF Len(rest) = 1 THEN ParseOk(SqlText(acc)) ELSE ParseFail
         ELSE ScanString(Tail(rest), Append(acc, Head(rest)))

DigitValue(c) == CHOOSE d \in 0..9 : DigitChars[d + 1] = c

RECURSIVE TextToInt(_, _)
TextToInt(s, acc) ==
    IF s = <<>> THEN acc ELSE TextToInt(Tail(s), 10 * acc + DigitValue(Head(s)))

IsDigits(s) == s # <<>> /\ \A i \in 1..Len(s) : s[i] \in Digits

\* digits "." digits
IsDecimal(s) ==
    \E k \in 2..(Len(s) - 1) :
        /\ s[k] = "."
        /\ IsDigits(SubSeq(s, 1, k - 1))
        /\ IsDigits(SubSeq(s, k + 1, Len(s)))

\* One value expression of a statement.  A word that is no literal (None,
\* inf, nan) is read as a column name, and no such column exists.
ParseLiteral(txt) ==
    IF txt = <<>> THEN ParseFail
    ELSE IF Head(txt) = QUOTE THEN ScanString(Tail(txt), <<>>)
    ELSE IF IsDigits(txt) THEN ParseOk(SqlInt(TextToInt(txt, 0)))
    ELSE IF Head(txt) = "-" /\ IsDigits(Tail(txt))
         THEN ParseOk(SqlInt(0 - TextToInt(Tail(txt), 0)))
    ELSE IF IsDecimal(txt) THEN ParseOk(SqlReal(txt))
    ELSE ParseFail

HasNul(txt) == \E i \in 1..Len(txt) : txt[i] = NUL

\* what the row factory hands back for a stored value
FromSql(v) ==
    CASE v.ty = "text" -> PyStr(v.s)
      [] v.ty = "integer" -> PyInt(v.n)
      [] v.ty = "real" -> PyFloat(v.s)
      [] OTHER -> PyNone

(* ------------------------ the engine: the database --------------------- *)

\* The tables the database file may hold.  "order" is a reserved word: a
\* statement that names it without quoting it does not parse.
TableNames == {"users", "order", "items"}
NeedsQuoting == {"order"}

BaseCols == <<"id", "name", "note">>
NotNullCols == {"name"}
AllCols == {"id", "name", "note", "extra"}

\* A database: the tables in the order sqlite_master lists them, and for
\* each its columns and rows.  A row gives every column of AllCols a value;
\* a column the table does not have is NULL.
EmptyTable == [cols |-> BaseCols, rows |-> {}]
NewDb(order) ==
    [order |-> order,
     tab |-> [t \in {order[i] : i \in 1..Len(order)} |-> EmptyTable]]

Range(seq) == {seq[i] : i \in 1..Len(seq)}
TablesOf(db) == DOMAIN db.tab
RowsOf(db, t) == db.tab[t].rows
ColsOf(db, t) == Range(db.tab[t].cols)
SetRows(db, t, rows) == [db EXCEPT !.tab[t].rows = rows]

\* A statement, as the text the wrapper builds is read by the engine.
\* quoted: the table name is written quoted (only raw SQL of the caller).
Stmt(kind, table) ==
    [kind |-> kind, table |-> table, quoted |-> FALSE, cols |-> <<>>,
     tuples |-> <<>>, column |-> "", literal |-> <<>>,
     pairs |-> <<>>, where |-> [ty |-> "pairs", n |-> 0]]

\* values of the where argument: None, the text "id = n", the empty text
WhereNone == [ty |-> "none", n |-> 0]
WhereIdEq(n) == [ty |-> "ideq", n |-> n]
WhereEmpty == [ty |-> "empty", n |-> 0]

EngResult(err, stepped, db, rows) ==
    [err |-> err, stepped |-> stepped, db |-> db, rows |-> rows]
\* the statement does not prepare: sqlite3.OperationalError
PrepareError(db) == EngResult("operational", FALSE, db, <<>>)
\* a constraint fails while the statement runs: sqlite3.IntegrityError; the
\* statement's own changes are undone
ConstraintError(db) == EngResult("integrity", TRUE, db, <<>>)
Done(db, rows) == EngResult("none", TRUE, db, rows)

TableKnown(db, s) ==
    /\ s.quoted \/ s.table \notin NeedsQuoting
    /\ s.table \in TablesOf(db)

AllParse(lits) == \A i \in 1..Len(lits) : ParseLiteral(lits[i]).ok

\* the row an INSERT builds from its column list and one tuple of values
BuildRow(cols, lits) ==
    [c \in AllCols |->
        IF \E i \in 1..Len(cols) : cols[i] = c
        THEN ParseLiteral(lits[CHOOSE i \in 1..Len(cols) : cols[i] = c]).val
        ELSE SqlNull]

\* NOT NULL, the INTEGER PRIMARY KEY holds an integer, and holds it once
RowAllowed(rows, r) ==
    /\ \A c \in NotNullCols : r[c].ty # "null"
    /\ r["id"].ty = "integer"
    /\ \A q \in rows : q["id"] # r["id"]

RECURSIVE InsertTuples(_, _, _)
InsertOne(rows, cols, tuples, r) ==
    IF RowAllowed(rows, r)
    THEN InsertTuples(rows \cup {r}, cols, Tail(tuples))
    ELSE [ok |-> FALSE, rows |-> rows]

\* the rows after inserting the tuples one by one, or not ok
InsertTuples(rows, cols, tuples) ==
    IF tuples = <<>> THEN [ok |-> TRUE, rows |-> rows]
    ELSE InsertOne(rows, cols, tuples, BuildRow(cols, Head(tuples)))

Inserted(db, s, r) ==
    IF r.ok THEN Done(SetRows(db, s.table, r.rows), <<>>)
    ELSE ConstraintError(db)

EngInsert(db, s) ==
    IF ~TableKnown(db, s) THEN PrepareError(db)
    ELSE IF \E i \in 1..Len(s.cols) : s.cols[i] \notin ColsOf(db, s.table)
         THEN PrepareError(db)
    ELSE IF \E i \in 1..Len(s.tuples) :
                Len(s.tuples[i]) # Len(s.cols) \/ ~AllParse(s.tuples[i])
         THEN PrepareError(db)
    ELSE Inserted(db, s, InsertTuples(RowsOf(db, s.table), s.cols, s.tuples))

EngDelete(db, s) ==
    IF ~TableKnown(db, s) THEN PrepareError(db)
    ELSE Done(SetRows(db, s.table, {}), <<>>)

\* the WHERE clause prepares: its columns exist and its literals parse; the
\* word None is no column, and the empty text no expression
CondKnown(db, s) ==
    CASE s.where.ty = "pairs" ->
            /\ s.pairs # <<>>
            /\ \A i \in 1..Len(s.pairs) :
                  /\ s.pairs[i].col \in ColsOf(db, s.table)
                  /\ ParseLiteral(s.pairs[i].lit).ok
      [] s.where.ty = "ideq" -> TRUE
      [] OTHER -> FALSE

CondHolds(s, r) ==
    IF s.where.ty = "ideq" THEN r["id"] = SqlInt(s.where.n)
    ELSE \A i \in 1..Len(s.pairs) :
            r[s.pairs[i].col] = ParseLiteral(s.pairs[i].lit).val

Updated(db, s, old, new) ==
    IF /\ \A r \in new : \A c \in NotNullCols : r[c].ty # "null"
       /\ \A r \in new : r["id"].ty = "integer"
       /\ Cardinality({r["id"] : r \in new}) = Cardinality(old)
    THEN Done(SetRows(db, s.table, new), <<>>)
    ELSE ConstraintError(db)

UpdateRows(s, old, v) ==
    {IF CondHolds(s, r) THEN [r EXCEPT ![s.column] = v] ELSE r : r \in old}

EngUpdate(db, s) ==
    IF ~TableKnown(db, s) THEN PrepareError(db)
    ELSE IF s.column \notin ColsOf(db, s.table) \/ ~ParseLiteral(s.literal).ok
         THEN PrepareError(db)
    ELSE IF ~CondKnown(db, s) THEN PrepareError(db)
    ELSE Updated(db, s, RowsOf(db, s.table),
                 UpdateRows(s, RowsOf(db, s.table), ParseLiteral(s.literal).val))

RECURSIVE SortById(_)
SortById(rows) ==
    IF rows = {} THEN <<>>
    ELSE LET m == CHOOSE r \in rows : \A q \in rows : r["id"].n <= q["id"].n
         IN <<m>> \o SortById(rows \ {m})

\* SELECT * FROM table
EngSelect(db, s) ==
    IF ~TableKnown(db, s) THEN PrepareError(db)
    ELSE Done(db, SortById(RowsOf(db, s.table)))

\* PRAGMA table_info(table): one entry per column; no entry, and no error,
\* for a table that does not exist
EngTableInfo(db, s) ==
    IF ~s.quoted /\ s.table \in NeedsQuoting THEN PrepareError(db)
    ELSE IF s.table \notin TablesOf(db) THEN Done(db, <<>>)
    ELSE Done(db, db.tab[s.table].cols)

\* ALTER TABLE table ADD column type: existing rows read NULL in it
EngAlter(db, s) ==
    IF ~TableKnown(db, s) THEN PrepareError(db)
    ELSE IF s.column \in ColsOf(db, s.table) THEN PrepareError(db)
    ELSE Done([db EXCEPT !.tab[s.table].cols =
                   Append(db.tab[s.table].cols, s.column)], <<>>)

\* SELECT name FROM sqlite_master WHERE type = 'table'
EngTables(db) == Done(db, db.order)

Eng(db, s) ==
    CASE s.kind = "insert" -> EngInsert(db, s)
      [] s.kind = "delete" -> EngDelete(db, s)
      [] s.kind = "update" -> EngUpdate(db, s)
      [] s.kind = "select" -> EngSelect(db, s)
      [] s.kind = "table_info" -> EngTableInfo(db, s)
      [] s.kind = "alter" -> EngAlter(db, s)
      [] s.kind = "tables" -> EngTables(db)
      [] OTHER -> PrepareError(db)

(* ------------------- sqlite3: connection and cursor -------------------- *)

\* The connection: work is the database as this connection sees it, disk
\* the committed database in the file, txn is connection.in_transaction.
Conn(w, d, x) == [work |-> w, disk |-> d, txn |-> x]

StmtTexts(s) ==
    UNION {Range(s.tuples[i]) : i \in 1..Len(s.tuples)}
        \cup {s.literal} \cup {s.pairs[i].lit : i \in 1..Len(s.pairs)}

IsDML(s) == s.kind \in {"insert", "update", "delete"}

Executed(err, c, rows) == [err |-> err, c |-> c, rows |-> rows]

\* A statement that does not prepare changes nothing.  A BEGIN is issued
\* before INSERT, UPDATE and DELETE, and the transaction stays open when
\* the statement then fails.  Any other statement runs in the open
\* transaction if there is one and is committed by the engine if not.
Stepped(c, s, r) ==
    IF ~r.stepped THEN Executed(r.err, c, <<>>)
    ELSE IF IsDML(s) THEN Executed(r.err, Conn(r.db, c.disk, TRUE), r.rows)
    ELSE Executed(r.err, Conn(r.db, IF c.txn THEN c.disk ELSE r.db, c.txn),
                  r.rows)

\* cursor.execute(sql); text with a NUL character is refused unprepared
cursor_execute(c, s) ==
    IF \E txt \in StmtTexts(s) : HasNul(txt) THEN Executed("other", c, <<>>)
    ELSE Stepped(c, s, Eng(c.work, s))

\* connection.commit()
commit(c) == Conn(c.work, c.work, FALSE)

\* connection.close(): what was not committed is gone
close(c) == Conn(c.disk, c.disk, FALSE)

(* ------------------------- the Database methods ------------------------ *)

\* What a call did: the connection after it; result is "returned", "raised"
\* (an exception reached the caller; exc names it) or "exited" (quit());
\* ret is the value returned; execs, commits and prompts count the calls of
\* cursor.execute, connection.commit and input; logged: an error was
\* printed; rows: the rows get_all fetched; cleared: the tables
\* clear_all_tables printed as deleted.
Outcome(c, result, exc, ret, execs, commits, logged) ==
    [c |-> c, result |-> result, exc |-> exc, ret |-> ret, execs |-> execs,
     commits |-> commits, prompts |-> 0, logged |-> logged, rows |-> <<>>,
     cleared |-> <<>>]

ExcName(err) ==
    CASE err = "integrity" -> "IntegrityError"
      [] err = "operational" -> "OperationalError"
      [] OTHER -> "Error"

EngineErrors == {"IntegrityError", "OperationalError", "Error"}

\* A Python dict is a sequence of [col, val] entries with distinct keys.
Entry(col, val) == [col |-> col, val |-> val]
Keys(row) == [i \in 1..Len(row) |-> row[i].col]
HasKey(row, col) == \E i \in 1..Len(row) : row[i].col = col
Get(row, col) == row[CHOOSE i \in 1..Len(row) : row[i].col = col].val

\* the try statement of insert_row and insert_many with IntegrityError
\* handled like OperationalError
TryInsertStrict(x) ==
    CASE x.err = "none" ->
            Outcome(commit(x.c), "returned", "", "None", 1, 1, FALSE)
      [] x.err \in {"integrity", "operational"} ->
            Outcome(x.c, "exited", "", "None", 1, 0, TRUE)
      [] OTHER -> Outcome(x.c, "returned", "", "None", 1, 0, TRUE)

\* the try statement of insert_row and insert_many: execute and commit;
\* IntegrityError is passed over, OperationalError printed and followed by
\* quit(), any other exception printed
TryInsert(x) ==
    CASE x.err = "none" ->
            Outcome(commit(x.c), "returned", "", "None", 1, 1, FALSE)
      [] x.err = "integrity" -> Outcome(x.c, "returned", "", "None", 1, 0, FALSE)
      [] x.err = "operational" -> Outcome(x.c, "exited", "", "None", 1, 0, TRUE)
      [] OTHER -> Outcome(x.c, "returned", "", "None", 1, 0, TRUE)

\* insert into table (columns) values (stringify(value, preserve_int=True))
InsertSql(table, row) ==
    [Stmt("insert", table) EXCEPT
        !.cols = Keys(row),
        !.tuples = <<[i \in 1..Len(row) |-> stringify(row[i].val, TRUE)]>>]

\* Database.insert_row
insert_row(c, table, row) == TryInsert(cursor_execute(c, InsertSql(table, row)))

\* INSERT INTO table (col_names) VALUES (row), (row), ...
BatchSql(table, rows) ==
    [Stmt("insert", table) EXCEPT
        !.cols = Keys(rows[1]),
        !.tuples = [i \in 1..Len(rows) |->
                       [k \in 1..Len(rows[1]) |->
                           BatchLiteral(Get(rows[i], rows[1][k].col))]]]

\* Database.insert_many; row[col] raises KeyError for a row that lacks a
\* column of the first row
insert_many(c, table, rows) ==
    IF Len(rows) = 0 THEN Outcome(c, "returned", "", "None", 0, 0, FALSE)
    ELSE IF \E i \in 1..Len(rows) : \E k \in 1..Len(rows[1]) :
                ~HasKey(rows[i], rows[1][k].col)
         THEN Outcome(c, "raised", "KeyError", "None", 0, 0, FALSE)
    ELSE TryInsert(cursor_execute(c, BatchSql(table, rows)))

\* primary_keys: None, or a dict
KeysNone == [given |-> FALSE, items |-> <<>>]
KeysDict(items) == [given |-> TRUE, items |-> items]

\* the guard of update_cell: primary_keys is None and where is None
NoCondition(primary_keys, where) ==
    ~primary_keys.given /\ where.ty = "none"

\* the condition: the entries of a dict that is not empty, or else where
\* as it is (None is written as the word None)
UpdateSql(table, column, new_value, primary_keys, where) ==
    IF primary_keys.given /\ primary_keys.items # <<>>
    THEN [Stmt("update", table) EXCEPT
             !.column = column,
             !.literal = stringify(new_value, TRUE),
             !.pairs = [i \in 1..Len(primary_keys.items) |->
                           [col |-> primary_keys.items[i].col,
                            lit |-> stringify(primary_keys.items[i].val, FALSE)]]]
    ELSE [Stmt("update", table) EXCEPT
             !.column = column,
             !.literal = stringify(new_value, TRUE),
             !.where = where]

\* the try statement of update_cell without its except clause
TryUpdateNoExcept(x) ==
    IF x.err = "none"
    THEN Outcome(commit(x.c), "returned", "", "None", 1, 1, FALSE)
    ELSE Outcome(x.c, "raised", ExcName(x.err), "None", 1, 0, FALSE)

\* the try statement of update_cell: execute and commit; any exception is
\* printed
TryUpdate(x) ==
    IF x.err = "none"
    THEN Outcome(commit(x.c), "returned", "", "None", 1, 1, FALSE)
    ELSE Outcome(x.c, "returned", "", "None", 1, 0, TRUE)

\* Database.update_cell
update_cell(c, table, column, new_value, primary_keys, where) ==
    IF NoCondition(primary_keys, where)
    THEN Outcome(c, "raised", "TypeError", "None", 0, 0, FALSE)
    ELSE TryUpdate(cursor_execute(c,
             UpdateSql(table, column, new_value, primary_keys, where)))

Fetched(x) ==
    IF x.err = "none"
    THEN [Outcome(x.c, "returned", "", "rows", 1, 0, FALSE) EXCEPT !.rows = x.rows]
    ELSE Outcome(x.c, "raised", ExcName(x.err), "None", 1, 0, FALSE)

\* Database.get_all: no try statement
get_all(c, sql_query) == Fetched(cursor_execute(c, sql_query))

\* the try statement of execute: execute and commit; any exception is
\* printed
TryExecute(x) ==
    IF x.err = "none"
    THEN Outcome(commit(x.c), "returned", "", "None", 1, 1, FALSE)
    ELSE Outcome(x.c, "returned", "", "None", 1, 0, TRUE)

\* Database.execute
execute(c, sql) == TryExecute(cursor_execute(c, sql))

\* cursor.execute('ALTER TABLE ...'), no try statement and no commit
Altered(x) ==
    IF x.err = "none" THEN Outcome(x.c, "returned", "", "False", 2, 0, FALSE)
    ELSE Outcome(x.c, "raised", ExcName(x.err), "None", 2, 0, FALSE)

AlterSql(table_name, column_name) ==
    [Stmt("alter", table_name) EXCEPT !.column = column_name]

\* col_exists computed the wrong way round
col_exists_not(existing_columns, column_name) ==
    ~\E i \in 1..Len(existing_columns) : existing_columns[i] = column_name

\* col_exists = any(col['name'] == column_name for col in existing_columns)
col_exists(existing_columns, column_name) ==
    \E i \in 1..Len(existing_columns) : existing_columns[i] = column_name

EnsureAfter(e, table_name, column_name) ==
    IF e.result = "raised" THEN e
    ELSE IF col_exists(e.rows, column_name)
         THEN Outcome(e.c, "returned", "", "True", 1, 0, FALSE)
         ELSE Altered(cursor_execute(e.c, AlterSql(table_name, column_name)))

\* Database.ensure_column: returns col_exists
ensure_column(c, table_name, column_name, data_type) ==
    EnsureAfter(get_all(c, Stmt("table_info", table_name)),
                table_name, column_name)

\* str.lower() on the characters a line is made of here
LowerChar(ch) ==
    CASE ch = "Y" -> "y"
      [] ch = "N" -> "n"
      [] OTHER -> ch
Lower(line) == [i \in 1..Len(line) |-> LowerChar(line[i])]

\* any line that starts with a y is taken for a yes
confirm_prefix(line) == line # <<>> /\ LowerChar(line[1]) = "y"

\* confirm = True if input(...).lower() == "y" else False
confirm(line) == Lower(line) = <<"y">>

\* print("delete aborted."); return
Aborted(c) ==
    [Outcome(c, "returned", "", "None", 0, 0, FALSE) EXCEPT !.prompts = 1]

Asked(o, is_root) == [o EXCEPT !.prompts = IF is_root THEN 0 ELSE 1]

\* execute the DELETE and commit, no try statement
Deleted(x) ==
    IF x.err = "none"
    THEN Outcome(commit(x.c), "returned", "", "None", 1, 1, FALSE)
    ELSE Outcome(x.c, "raised", ExcName(x.err), "None", 1, 0, FALSE)

\* Database.delete_all_rows; line is what input() reads if it is called
delete_all_rows(c, is_root, table, line) ==
    IF ~is_root /\ ~confirm(line) THEN Aborted(c)
    ELSE Asked(Deleted(cursor_execute(c, Stmt("delete", table))), is_root)

RECURSIVE ClearLoopOn(_, _, _)
\* the loop of clear_all_tables going on to the next table after an error
ClearLoopOn(c, tables, done) ==
    IF tables = <<>>
    THEN [Outcome(c, "returned", "", "None", Len(done) + 1, Len(done), FALSE)
             EXCEPT !.cleared = done]
    ELSE LET x == cursor_execute(c, Stmt("delete", Head(tables)))
         IN IF x.err = "none"
            THEN ClearLoopOn(commit(x.c), Tail(tables),
                             Append(done, Head(tables)))
            ELSE ClearLoopOn(x.c, Tail(tables), done)

RECURSIVE ClearLoop(_, _, _)
\* one round of the loop: the DELETE was executed; commit, print the table
ClearStep(x, tables, done) ==
    IF x.err = "none"
    THEN ClearLoop(commit(x.c), Tail(tables), Append(done, Head(tables)))
    ELSE [Outcome(x.c, "raised", ExcName(x.err), "None",
                  Len(done) + 2, Len(done), FALSE)
             EXCEPT !.cleared = done]

\* for table in tables: execute the DELETE, commit, print the table
ClearLoop(c, tables, done) ==
    IF tables = <<>>
    THEN [Outcome(c, "returned", "", "None", Len(done) + 1, Len(done), FALSE)
             EXCEPT !.cleared = done]
    ELSE ClearStep(cursor_execute(c, Stmt("delete", Head(tables))),
                   tables, done)

\* tables = the names fetched from sqlite_master, then the loop
ClearFetched(x) == ClearLoop(x.c, x.rows, <<>>)

\* Database.clear_all_tables
clear_all_tables(c, is_root, line) ==
    IF ~is_root /\ ~confirm(line) THEN Aborted(c)
    ELSE Asked(ClearFetched(cursor_execute(c, Stmt("tables", ""))), is_root)

(* ------------------------ what the callers pass ------------------------ *)

RECURSIVE SeqsUpTo(_, _)
\* the sequences of at most n elements of S
SeqsUpTo(S, n) ==
    IF n = 0 THEN {<<>>}
    ELSE LET shorter == SeqsUpTo(S, n - 1)
         IN shorter \cup {Append(s, x) : s \in shorter, x \in S}

NoRepeat(s) == \A i, j \in 1..Len(s) : i # j => s[i] # s[j]

\* the tables of a database file, in the order they were created
TableSeqs == {s \in SeqsUpTo(TableNames, MaxTables) : s # <<>> /\ NoRepeat(s)}
\* the tables a caller of the row operations names: one that needs no
\* quoting and one that does
DataTables == {"users", "order"}

TextA == <<"a">>
TextOB == <<"O", QUOTE, "B">>

Row2(n, v) == <<Entry("id", PyInt(n)), Entry("name", v)>>
Row3(n, v, w) == <<Entry("id", PyInt(n)), Entry("name", v), Entry("note", w)>>
\* the values of the Row data model a note is given: int, float, None
NoteArgs == {PyInt(7), PyFloat(<<"1", ".", "5">>), PyNone}
\* rows with a str name, rows with a note, rows whose name is None or holds
\* a NUL character, rows without a name, rows with a column no table has
RowArgs ==
    {Row2(n, PyStr(s)) : n \in Ids, s \in {TextA, TextOB}}
        \cup {Row3(MaxId, PyStr(TextA), w) : w \in NoteArgs}
        \cup {Row2(1, PyNone), Row2(1, PyStr(<<NUL>>)),
              <<Entry("id", PyInt(1))>>,
              <<Entry("id", PyInt(1)), Entry("bogus", PyInt(0))>>}

\* a batch of n rows with the keys 1, 2, ..., MaxId, 1, ...
Batch(n) == [k \in 1..n |-> Row2(((k - 1) % MaxId) + 1, PyStr(TextA))]
BatchArgs == {Batch(n) : n \in 0..MaxBatch} \cup {<<Row2(1, PyStr(TextOB))>>}

\* the (primary_keys, where) pairs update_cell is called with
CondArgs ==
    {<<KeysNone, WhereNone>>, <<KeysDict(<<>>), WhereNone>>,
     <<KeysNone, WhereEmpty>>,
     <<KeysDict(<<Entry("id", PyInt(1))>>), WhereIdEq(2)>>,
     <<KeysDict(<<Entry("id", PyInt(1))>>), WhereNone>>,
     <<KeysNone, WhereIdEq(1)>>}

\* queries: SELECT * FROM a table, its name quoted or not
QueryArgs == {[Stmt("select", t) EXCEPT !.quoted = q] :
                 t \in DataTables, q \in BOOLEAN}

\* raw SQL: INSERT INTO "table" (id, name) VALUES (n, 'a'), ..., (m, 'a')
RawInsert(t, ids) ==
    [Stmt("insert", t) EXCEPT
        !.quoted = TRUE, !.cols = <<"id", "name">>,
        !.tuples = [k \in 1..Len(ids) |->
                       <<IntToText(ids[k]), <<QUOTE, "a", QUOTE>>>>]]
\* raw SQL that is no statement
RawBad == Stmt("selec", "")
\* one row, or text that is no SQL
RawArgs == {RawInsert(t, <<1>>) : t \in DataTables} \cup {RawBad}
\* the rows 1..MaxId at once
FillArgs == {RawInsert(t, [k \in 1..MaxId |-> k]) : t \in TableNames}

ColumnArgs == {"extra", "name"}

\* what the user types at the prompt
Lines == {<<"y">>, <<"Y">>, <<"n">>, <<"y", "e", "s">>, <<>>}
\* no prompt, nothing read
NoLine == <<>>

(* ------------------------------ the state ------------------------------ *)

VARIABLES
    root,            \* self.root, the unattended flag
    work,            \* the database as self.connection sees it
    disk,            \* the committed database in the file
    in_transaction,  \* self.connection.in_transaction
    alive,           \* the Database object has not been finalised
    closed,          \* the handles closed so far, in the order of closing
    proc,            \* the process: "running", "exiting" (quit() was called)
                     \* or "terminated"
    last             \* the last call: its arguments, the state it found
                     \* and what it did

vars == <<root, work, disk, in_transaction, alive, closed, proc, last>>

conn == Conn(work, disk, in_transaction)
LinesRead == IF root THEN {NoLine} ELSE Lines

NoArgs ==
    [table |-> "", rows |-> <<>>, column |-> "", keys |-> KeysNone,
     where |-> WhereNone, line |-> NoLine, quoted |-> FALSE]

\* what a call found: the connection and self.root before it
Pre(c, is_root) ==
    [work |-> c.work, disk |-> c.disk, txn |-> c.txn, root |-> is_root]
NoPre == Pre(Conn(NewDb(<<>>), NewDb(<<>>), FALSE), FALSE)

NoCall ==
    [op |-> "__init__", args |-> NoArgs, pre |-> NoPre,
     result |-> "returned", exc |-> "",
     ret |-> "None", execs |-> 0, commits |-> 0, prompts |-> 0,
     logged |-> FALSE, cleared |-> <<>>]

\* Database.__init__: one connection, one cursor, root as given; the file
\* holds the tables named by order
InitWith(orders) ==
    /\ root \in BOOLEAN
    /\ \E order \in orders : work = NewDb(order)
    /\ disk = work
    /\ in_transaction = FALSE
    /\ alive = TRUE
    /\ closed = <<>>
    /\ proc = "running"
    /\ last = NoCall

(* ----------------------------- the actions ----------------------------- *)

\* a call of method op with arguments a ends as o says
Call(op, a, o) ==
    /\ proc = "running"
    /\ alive
    /\ work' = o.c.work
    /\ disk' = o.c.disk
    /\ in_transaction' = o.c.txn
    /\ proc' = IF o.result = "exited" THEN "exiting" ELSE proc
    /\ last' = [op |-> op, args |-> a, pre |-> Pre(conn, root),
                result |-> o.result, exc |-> o.exc,
                ret |-> o.ret, execs |-> o.execs, commits |-> o.commits,
                prompts |-> o.prompts, logged |-> o.logged,
                cleared |-> o.cleared]
    /\ UNCHANGED <<root, alive, closed>>

InsertRow ==
    \E table \in DataTables, row \in RowArgs :
        Call("insert_row", [NoArgs EXCEPT !.table = table, !.rows = <<row>>],
             insert_row(conn, table, row))

InsertMany ==
    \E table \in DataTables, rows \in BatchArgs :
        Call("insert_many", [NoArgs EXCEPT !.table = table, !.rows = rows],
             insert_many(conn, table, rows))

UpdateCell ==
    \E table \in DataTables, cnd \in CondArgs :
        Call("update_cell",
             [NoArgs EXCEPT !.table = table, !.column = "name",
                            !.keys = cnd[1], !.where = cnd[2]],
             update_cell(conn, table, "name", PyStr(TextOB), cnd[1], cnd[2]))

GetAll ==
    \E q \in QueryArgs :
        Call("get_all", [NoArgs EXCEPT !.table = q.table, !.quoted = q.quoted],
             get_all(conn, q))

ExecuteOf(raws) ==
    \E sql \in raws :
        Call("execute", [NoArgs EXCEPT !.table = sql.table], execute(conn, sql))

Execute == ExecuteOf(RawArgs)
ExecuteFill == ExecuteOf(FillArgs)

EnsureColumn ==
    \E table \in DataTables, column \in ColumnArgs :
        Call("ensure_column", [NoArgs EXCEPT !.table = table, !.column = column],
             ensure_column(conn, table, column, "TEXT"))

DeleteAllRowsOf(tables) ==
    \E table \in tables, line \in LinesRead :
        Call("delete_all_rows", [NoArgs EXCEPT !.table = table, !.line = line],
             delete_all_rows(conn, root, table, line))

DeleteAllRows == DeleteAllRowsOf(DataTables)
DeleteAllRowsAny == DeleteAllRowsOf(TableNames)

ClearAllTables ==
    \E line \in LinesRead :
        Call("clear_all_tables", [NoArgs EXCEPT !.line = line],
             clear_all_tables(conn, root, line))

\* Database.__del__, run when the object is collected: while the process
\* runs, or while the interpreter shuts down
Del ==
    /\ alive
    /\ proc \in {"running", "exiting"}
    /\ alive' = FALSE
    /\ closed' = closed \o <<"cursor", "connection">>
    /\ work' = close(conn).work
    /\ disk' = disk
    /\ in_transaction' = FALSE
    /\ last' = [NoCall EXCEPT !.op = "__del__", !.pre = Pre(conn, root)]
    /\ UNCHANGED <<root, proc>>

\* The process ends.  Python does not promise to run __del__ for an object
\* that still exists when the interpreter exits; what the connection had
\* not committed is gone with it.
ProcessEnd ==
    /\ proc \in {"running", "exiting"}
    /\ proc' = "terminated"
    /\ work' = close(conn).work
    /\ disk' = disk
    /\ in_transaction' = FALSE
    /\ last' = [NoCall EXCEPT !.op = "exit", !.pre = Pre(conn, root)]
    /\ UNCHANGED <<root, alive, closed>>

(* -------------------------- the specifications ------------------------- *)

\* Every method, on a database file of one table.
Init == InitWith({<<t>> : t \in DataTables})

Next ==
    \/ InsertRow
    \/ InsertMany
    \/ UpdateCell
    \/ GetAll
    \/ Execute
    \/ EnsureColumn
    \/ DeleteAllRows
    \/ ClearAllTables
    \/ Del
    \/ ProcessEnd

Spec == Init /\ [][Next]_vars

\* The two delete operations, on a database file of up to MaxTables tables
\* that raw SQL fills.
InitAdmin == InitWith(TableSeqs)

NextAdmin ==
    \/ ExecuteFill
    \/ DeleteAllRowsAny
    \/ ClearAllTables
    \/ Del
    \/ ProcessEnd

SpecAdmin == InitAdmin /\ [][NextAdmin]_vars

(* ------------------------------ the claims ----------------------------- *)

\* In every state last names the call that led to it, last.pre the
\* connection that call found, and work, disk what it left.

InsertOps == {"insert_row", "insert_many"}
DeleteOps == {"delete_all_rows", "clear_all_tables"}
MutatingOps ==
    InsertOps \cup DeleteOps \cup {"update_cell", "execute", "ensure_column"}

\* the lines the prompt takes for a yes
Yes == {<<"y">>, <<"Y">>}
\* the call was made in interactive mode and refused at the prompt
Refused == ~last.pre.root /\ last.args.line \notin Yes
\* the tables a delete call is to empty
Targets ==
    IF last.op = "clear_all_tables" THEN TablesOf(last.pre.work)
    ELSE {last.args.table} \cap TablesOf(last.pre.work)
\* table t has no rows, and that is committed
Emptied(t) == RowsOf(work, t) = {} /\ RowsOf(disk, t) = {}
\* the call changed nothing in the database
Untouched == work = last.pre.work /\ disk = last.pre.disk

\* the row insert_row was called with
LastRow == last.args.rows[1]
\* the table exists and holds a row with the key of LastRow
KeyExists ==
    /\ last.args.table \in TablesOf(last.pre.work)
    /\ HasKey(LastRow, "id")
    /\ \E r \in RowsOf(last.pre.work, last.args.table) :
          FromSql(r["id"]) = Get(LastRow, "id")
\* the statement built from LastRow prepares: the table name needs no
\* quoting, the table has the columns, no value is None
StatementValid ==
    /\ last.args.table \notin NeedsQuoting
    /\ \A i \in 1..Len(LastRow) :
          /\ LastRow[i].col \in ColsOf(last.pre.work, last.args.table)
          /\ LastRow[i].val.ty # "none"

\* C1 (as written): in interactive mode a line other than y or Y leaves
\* every table as it was and executes no statement; in unattended mode no
\* prompt is issued and every targeted table ends with zero rows; root
\* never changes.
C1_AsWritten ==
    /\ last.op # "__init__" => root = last.pre.root
    /\ last.op \in DeleteOps =>
          /\ Refused => /\ Untouched
                        /\ last.execs = 0
                        /\ last.commits = 0
                        /\ last.result = "returned"
          /\ last.pre.root => last.prompts = 0
          /\ last.pre.root => \A t \in Targets : Emptied(t)

\* C1 (amended): in interactive mode a line other than y or Y leaves every
\* table as it was and executes no statement; in unattended mode no prompt
\* is issued and, when the call returns normally, every targeted table has
\* zero rows, committed; root never changes.
C1_DeleteGuard ==
    /\ last.op # "__init__" => root = last.pre.root
    /\ last.op \in DeleteOps =>
          /\ Refused => /\ Untouched
                        /\ last.execs = 0
                        /\ last.commits = 0
                        /\ last.result = "returned"
          /\ last.pre.root => last.prompts = 0
          /\ last.pre.root /\ last.result = "returned" =>
                \A t \in Targets : Emptied(t)

\* C1 witness: clear_all_tables was answered "yes" at the prompt, which is
\* a refusal, and a table holds rows
C1_Refusal ==
    /\ last.op = "clear_all_tables"
    /\ ~last.pre.root
    /\ last.args.line = <<"y", "e", "s">>
    /\ \E t \in TablesOf(work) : RowsOf(work, t) # {}

KeyConflict ==
    /\ last.args.table \in TablesOf(last.pre.work)
    /\ \E i \in 1..Len(last.args.rows) :
          /\ HasKey(last.args.rows[i], "id")
          /\ \/ \E r \in RowsOf(last.pre.work, last.args.table) :
                   FromSql(r["id"]) = Get(last.args.rows[i], "id")
             \/ \E j \in 1..(i - 1) :
                   /\ HasKey(last.args.rows[j], "id")
                   /\ Get(last.args.rows[j], "id") = Get(last.args.rows[i], "id")

\* C3 (as written): an insert whose statement failed ended in one of three
\* ways: a key conflict, returning normally with the database unchanged;
\* the end of the process; or a logged error and a normal return.  Only
\* insert_row and insert_many end the process.
C3_AsWritten ==
    /\ last.op \in InsertOps /\ last.execs = 1 /\ last.commits = 0 =>
          \/ KeyConflict /\ last.result = "returned" /\ Untouched
          \/ last.result = "exited"
          \/ last.result = "returned" /\ last.logged
    /\ last.result = "exited" => last.op \in InsertOps

\* neither an entry of primary_keys nor a where text was given
NoConditionGiven ==
    last.args.keys.items = <<>> /\ last.args.where.ty = "none"

\* C4 (as written): update_cell called with no condition raises TypeError
\* before any statement is executed: no execution, no commit, the database
\* unchanged.
C4_AsWritten ==
    last.op = "update_cell" /\ NoConditionGiven =>
        /\ last.result = "raised"
        /\ last.exc = "TypeError"
        /\ last.execs = 0
        /\ last.commits = 0
        /\ Untouched

\* what get_all returns for SELECT * FROM "table" now
ReadBack ==
    get_all(conn, [Stmt("select", last.args.table) EXCEPT !.quoted = TRUE]).rows

\* LastRow can be stored: the table exists, its name needs no quoting, it
\* has the columns, id and name are given, no text holds a NUL character,
\* and no stored row has the key
Storable ==
    /\ last.args.table \in TablesOf(last.pre.work)
    /\ last.args.table \notin NeedsQuoting
    /\ \A i \in 1..Len(LastRow) :
          /\ LastRow[i].col \in ColsOf(last.pre.work, last.args.table)
          /\ ~HasNul(LastRow[i].val.s)
    /\ HasKey(LastRow, "id")
    /\ HasKey(LastRow, "name")
    /\ Get(LastRow, "name").ty = "str"
    /\ \A r \in RowsOf(last.pre.work, last.args.table) :
          FromSql(r["id"]) # Get(LastRow, "id")

\* C5 (as written): insert_row of a row of str, int, float and None values
\* that meets no conflict returns normally, and get_all then returns a row
\* with exactly the inserted values.
C5_AsWritten ==
    last.op = "insert_row" /\ Storable =>
        /\ last.result = "returned"
        /\ \E i \in 1..Len(ReadBack) :
              \A k \in 1..Len(LastRow) :
                  FromSql(ReadBack[i][LastRow[k].col]) = LastRow[k].val

C7_AsWritten ==
    /\ last.op \in MutatingOps
    /\ last.result = "returned"
    /\ work # last.pre.work
    => work = disk

\* C8 (as written): no call of insert_row, insert_many, update_cell,
\* get_all, delete_all_rows or execute raises an engine error; only the
\* inserts end the process; execute always returns normally.
C8_AsWritten ==
    /\ last.op \in InsertOps \cup
                      {"update_cell", "get_all", "delete_all_rows", "execute"}
          => ~(last.result = "raised" /\ last.exc \in EngineErrors)
    /\ last.result = "exited" => last.op \in InsertOps
    /\ last.op = "execute" => last.result = "returned"

\* C8 (amended): no call of insert_row, insert_many, update_cell or execute
\* raises an engine error; only the inserts end the process; execute
\* always returns normally; get_all raises the engine's error for a query
\* on a table that does not exist.
C8_EngineErrorsHandled ==
    /\ last.op \in InsertOps \cup {"update_cell", "execute"}
          => ~(last.result = "raised" /\ last.exc \in EngineErrors)
    /\ last.result = "exited" => last.op \in InsertOps
    /\ last.op = "execute" => last.result = "returned"
    /\ last.op = "get_all" /\ last.args.table \notin TablesOf(last.pre.work)
          => last.result = "raised" /\ last.exc = "OperationalError"

\* C8 witness: update_cell executed a statement that failed, printed the
\* error and returned
C8_Swallowed ==
    /\ last.op = "update_cell"
    /\ last.execs = 1
    /\ last.commits = 0
    /\ last.logged
    /\ last.result = "returned"

\* C9 (as written): the cursor and then the connection are closed, each
\* once, and on every exit path: when the process has ended both are
\* closed.
C9_AsWritten ==
    /\ closed \in {<<>>, <<"cursor", "connection">>}
    /\ proc = "terminated" => closed = <<"cursor", "connection">>

\* the tables as clear_all_tables enumerates them
Order == last.pre.work.order

\* C10: a clear_all_tables that was not refused has emptied, with one
\* commit each, the first n tables of the enumeration, n the number of
\* tables it printed; every later table has the rows it had, in the
\* connection and in the file; it returned after emptying all tables or
\* raised the error of the DELETE on table n + 1.
C10_PerTableCommit ==
    last.op = "clear_all_tables" /\ ~Refused =>
        /\ Len(last.cleared) <= Len(Order)
        /\ last.cleared = SubSeq(Order, 1, Len(last.cleared))
        /\ last.commits = Len(last.cleared)
        /\ \A i \in 1..Len(last.cleared) : Emptied(Order[i])
        /\ \A i \in (Len(last.cleared) + 1)..Len(Order) :
              /\ RowsOf(work, Order[i]) = RowsOf(last.pre.work, Order[i])
              /\ RowsOf(disk, Order[i]) = RowsOf(last.pre.disk, Order[i])
        /\ last.result \in {"returned", "raised"}
        /\ last.result = "returned" => Len(last.cleared) = Len(Order)
        /\ last.result = "raised" =>
              /\ Len(last.cleared) < Len(Order)
              /\ last.execs = Len(last.cleared) + 2
              /\ last.exc \in EngineErrors

\* C10 witness: clear_all_tables emptied a first table that held rows and
\* failed on the second, which still holds its rows
C10_Partial ==
    /\ last.op = "clear_all_tables"
    /\ last.result = "raised"
    /\ Len(last.cleared) = 1
    /\ RowsOf(last.pre.work, Order[1]) # {}
    /\ RowsOf(work, Order[1]) = {}
    /\ RowsOf(work, Order[2]) # {}

====
